---------------------------- MODULE Spec2Model ----------------------------
(***************************************************************************)
(* A model of sample_agent.py: the count_words tool, the text_summary_agent*)
(* configuration, and run_sample, which runs the agent once on a fixed     *)
(* input inside a trace span and prints the result.                        *)
(*                                                                         *)
(* Python values are records [type, value]; a str's value is the sequence  *)
(* of its characters.  The outcome of evaluating a Python expression is a  *)
(* record [raised, val, exc]: either it returns val or it raises exc.      *)
(***************************************************************************)
EXTENDS Integers, Sequences, FiniteSets, TLC

VARIABLES
    pc,        \* position of the main program (asyncio.run(run_sample()))
    trace,     \* the span of `with trace(...)`: "unopened", "open", "closed"
    stdout,    \* what print has written, in order
    runs,      \* how many times Runner.run has been invoked
    run_args,  \* the (agent, input) pair passed to Runner.run
    runner,    \* the external run: "idle", "running", "returned", "raised"
    result,    \* the value bound to `result` in run_sample
    exit,      \* how the process ended
    agent,     \* the module global text_summary_agent
    final_output, \* the response the run produced
    exc,       \* the exception the run raised
    calls      \* the invocations of count_words, one frame each

vars == <<pc, trace, stdout, runs, run_args, runner, result, exit, agent,
          final_output, exc, calls>>

main_vars == <<pc, trace, stdout, runs, run_args, runner, result, exit, agent,
               final_output, exc>>

-----------------------------------------------------------------------------
(* Bounds of the model *)

\* Longest enumerated input string of count_words.
MaxLen == 4

\* Most invocations of count_words the agent makes in one run.
MaxCalls == 3

-----------------------------------------------------------------------------
(* Python values *)

Str(s) == [type |-> "str", value |-> s]

NoneValue == [type |-> "NoneType", value |-> <<>>]

EmptyList == [type |-> "list", value |-> <<>>]

Unset == [type |-> "unset", value |-> <<>>]

\* Characters for which str.isspace is true (those the model's strings use).
Whitespace == {" ", "\t", "\n", "\r", "\f"}

isspace(c) == c \in Whitespace

\* Characters of the enumerated input strings.
Alphabet == {"a", "b", " ", "\n"}

RECURSIVE SeqsUpTo(_)
SeqsUpTo(n) ==
    IF n = 0 THEN {<<>>}
    ELSE LET shorter == SeqsUpTo(n - 1)
         IN  shorter \cup {Append(s, c) : s \in {t \in shorter : Len(t) = n - 1}, c \in Alphabet}

\* The string literal of run_sample.
sample_input ==
    Str(<<
    "G", "e", "n", "e", "r", "a", "t", "i", "v", "e", " ", "A",
    "I", " ", "h", "a", "s", " ", "t", "h", "e", " ", "p", "o",
    "t", "e", "n", "t", "i", "a", "l", " ", "t", "o", " ", "t",
    "r", "a", "n", "s", "f", "o", "r", "m", " ", "h", "o", "w",
    " ", "o", "r", "g", "a", "n", "i", "z", "a", "t", "i", "o",
    "n", "s", " ", "a", "u", "t", "o", "m", "a", "t", "e", " ",
    "w", "o", "r", "k", ",", " " >>
        \o
        <<
    "e", "x", "t", "r", "a", "c", "t", " ", "i", "n", "s", "i",
    "g", "h", "t", "s", ",", " ", "a", "n", "d", " ", "i", "n",
    "t", "e", "r", "a", "c", "t", " ", "w", "i", "t", "h", " ",
    "d", "a", "t", "a", ".", " ", "I", "t", " ", "c", "a", "n",
    " ", "a", "l", "s", "o", " ", "b", "o", "o", "s", "t", " ",
    "p", "r", "o", "d", "u", "c", "t", "i", "v", "i", "t", "y",
    "." >>)

hello_world == Str(<<"h", "e", "l", "l", "o", " ", "w", "o", "r", "l", "d">>)

one_two_three ==
    Str(<<"o", "n", "e", " ", " ", "t", "w", "o", " ", " ", " ", "t", "h", "r", "e", "e">>)

three_spaces == Str(<<" ", " ", " ">>)

padded_tabs == Str(<<"\t", " ", "a", "\r", "\n", "b", "\f", " ">>)

Examples == {sample_input, hello_world, one_two_three, three_spaces, padded_tabs}

Strings == {Str(s) : s \in SeqsUpTo(MaxLen)} \cup Examples

NonStrings == {NoneValue, EmptyList}

\* Everything count_words is applied to.
Inputs == Strings \cup NonStrings

-----------------------------------------------------------------------------
(* Outcomes and exceptions *)

NoException == [class |-> "none", args |-> ""]

Return(v) == [raised |-> FALSE, val |-> v, exc |-> NoException]

Raise(e) == [raised |-> TRUE, val |-> Unset, exc |-> e]

\* What attribute lookup raises on an object that has no such attribute.
AttributeError(type, attr) ==
    [class |-> "AttributeError",
     args  |-> "'" \o type \o "' object has no attribute '" \o attr \o "'"]

\* The classes `except Exception` catches: Exception and what derives from it.
ExceptionClasses == {"Exception", "AttributeError", "TypeError", "ValueError"}

\* str(e)
str_of(e) == e.args

-----------------------------------------------------------------------------
(* str.strip() and str.split() *)

RECURSIVE lstrip(_)
lstrip(s) ==
    IF s # <<>> /\ isspace(Head(s)) THEN lstrip(Tail(s)) ELSE s

RECURSIVE rstrip(_)
rstrip(s) ==
    IF s # <<>> /\ isspace(s[Len(s)]) THEN rstrip(SubSeq(s, 1, Len(s) - 1)) ELSE s

\* s.strip(): s without its leading and trailing whitespace.
do_strip(s) == rstrip(lstrip(s))

\* Length of the longest prefix of s without whitespace.
RECURSIVE word_end(_)
word_end(s) ==
    IF s # <<>> /\ ~isspace(Head(s)) THEN 1 + word_end(Tail(s)) ELSE 0

\* s.split(" "): cut at every single space, keeping empty pieces.
RECURSIVE split_single_space(_)
split_single_space(s) ==
    LET sp == {i \in 1..Len(s) : s[i] = " "}
    IN  IF sp = {} THEN <<s>>
        ELSE LET i == CHOOSE j \in sp : \A k \in sp : j <= k
             IN  <<SubSeq(s, 1, i - 1)>> \o split_single_space(SubSeq(s, i + 1, Len(s)))

\* list(s): one piece per character, no splitting at all.
split_missing(s) == [i \in 1..Len(s) |-> <<s[i]>>]

\* s.split(): skip whitespace, take the run up to the next whitespace, repeat.
RECURSIVE split_whitespace(_)
split_whitespace(s) ==
    LET rest == lstrip(s)
        n    == word_end(rest)
    IN  IF rest = <<>> THEN <<>>
        ELSE <<SubSeq(rest, 1, n)>> \o split_whitespace(SubSeq(rest, n + 1, Len(rest)))

\* input.strip()
py_strip(v) ==
    IF v.type = "str" THEN Return(Str(do_strip(v.value)))
    ELSE Raise(AttributeError(v.type, "strip"))

\* stripped.split()
py_split(v) == [type |-> "list", value |-> split_whitespace(v.value)]

\* len(tokens)
py_len(v) == Len(v.value)

-----------------------------------------------------------------------------
(* WordCountResult and count_words *)

WordCountResult(word_count, success, message) ==
    [word_count |-> word_count, success |-> success, message |-> message]

SuccessMessage == "Word count successful"

\* success=bool(num_words)
success_result_truthy(num_words) ==
    WordCountResult(num_words, num_words > 0, SuccessMessage)

\* The result built in the try block.
success_result(num_words) == WordCountResult(num_words, TRUE, SuccessMessage)

\* The handler's result keeps success=True from the try block's.
error_result_success_flag(e) == WordCountResult(0, TRUE, "Error: " \o str_of(e))

\* The result built in the except block.
error_result(e) == WordCountResult(0, FALSE, "Error: " \o str_of(e))

\* except ValueError
catches_value_error(e) == e.class = "ValueError"

\* except Exception
catches(e) == e.class \in ExceptionClasses

\* The try block, run to its end or to the exception it raises.
try_block(input) ==
    LET stripped == py_strip(input)
    IN  IF stripped.raised THEN stripped
        ELSE Return(success_result(py_len(py_split(stripped.val))))

\* count_words(input), run alone from call to return.
count_words(input) ==
    LET body == try_block(input)
    IN  IF body.raised /\ catches(body.exc) THEN Return(error_result(body.exc))
        ELSE body

-----------------------------------------------------------------------------
(* One invocation of count_words, statement by statement.  A frame holds    *)
(* the invocation's parameter and locals; arg is the object the caller      *)
(* passed.                                                                  *)

NewFrame(arg) ==
    [pc |-> "strip", arg |-> arg, input |-> arg, stripped |-> Unset,
     tokens |-> Unset, num_words |-> Unset, e |-> NoException, ret |-> Unset]

\* input.strip(), entering the handler when it raises an exception it catches.
Strip(k) ==
    /\ calls[k].pc = "strip"
    /\ LET o == py_strip(calls[k].input)
       IN  calls' = [calls EXCEPT ![k] =
               IF o.raised
               THEN [@ EXCEPT !.e = o.exc,
                              !.pc = IF catches(o.exc) THEN "except" ELSE "escaped"]
               ELSE [@ EXCEPT !.stripped = o.val, !.pc = "split"]]
    /\ UNCHANGED main_vars

\* A module-level buffer: split reads what the latest invocation stripped.
Split_shared_buffer(k) ==
    /\ calls[k].pc = "split"
    /\ calls[Len(calls)].stripped.type = "str"
    /\ calls' = [calls EXCEPT ![k].tokens = py_split(calls[Len(calls)].stripped),
                              ![k].pc = "len"]
    /\ UNCHANGED main_vars

\* .split()
Split(k) ==
    /\ calls[k].pc = "split"
    /\ calls' = [calls EXCEPT ![k].tokens = py_split(calls[k].stripped),
                              ![k].pc = "len"]
    /\ UNCHANGED main_vars

\* A module-level counter of finished calls leaks into the count.
Length_hidden_counter(k) ==
    /\ calls[k].pc = "len"
    /\ calls' = [calls EXCEPT
           ![k].num_words = py_len(calls[k].tokens)
               + Cardinality({j \in DOMAIN calls : calls[j].pc = "returned"}),
           ![k].pc = "return"]
    /\ UNCHANGED main_vars

\* num_words = len(...)
Length(k) ==
    /\ calls[k].pc = "len"
    /\ calls' = [calls EXCEPT ![k].num_words = py_len(calls[k].tokens),
                              ![k].pc = "return"]
    /\ UNCHANGED main_vars

\* return WordCountResult(word_count=num_words, success=True, ...)
ReturnSuccess(k) ==
    /\ calls[k].pc = "return"
    /\ calls' = [calls EXCEPT ![k].ret = success_result(calls[k].num_words),
                              ![k].pc = "returned"]
    /\ UNCHANGED main_vars

\* except Exception as e: return WordCountResult(word_count=0, success=False, ...)
ReturnError(k) ==
    /\ calls[k].pc = "except"
    /\ calls' = [calls EXCEPT ![k].ret = error_result(calls[k].e),
                              ![k].pc = "returned"]
    /\ UNCHANGED main_vars

-----------------------------------------------------------------------------
(* The module's globals and the state before the program starts *)

text_summary_agent ==
    [name         |-> "Summary Agent",
     instructions |-> "You are a helpful assistant. "
                      \o "Use the count_words tool to get the word count of the input. "
                      \o "Then, summarize the input in one sentence. "
                      \o "Include the word count in the final response.",
     tools        |-> {"count_words"},
     model        |-> "gpt-4.1-mini",
     output_type  |-> "str"]

NoRunResult == [final_output |-> <<>>, last_agent |-> ""]

MainInit ==
    /\ pc = "start"
    /\ trace = "unopened"
    /\ stdout = <<>>
    /\ runs = 0
    /\ run_args = <<>>
    /\ runner = "idle"
    /\ final_output = <<>>
    /\ exc = NoException
    /\ result = NoRunResult
    /\ exit = "running"
    /\ agent = text_summary_agent

-----------------------------------------------------------------------------
(* The external run: Runner.run(text_summary_agent, sample_input).  The     *)
(* agent calls count_words zero or more times with arguments of its own     *)
(* choosing, possibly before earlier calls have returned, then answers; or  *)
(* the run fails.                                                           *)

\* The arguments the agent passes to the tool.
AgentArgs == {sample_input, hello_world, three_spaces, NoneValue}

\* What the run can fail with.
RunnerFaults ==
    {[class |-> "APIConnectionError", args |-> "Connection error."],
     [class |-> "NotFoundError", args |-> "The model does not exist."]}

\* The agent's one-sentence summary, as a sequence of words.
Summary == <<"The", "text", "is", "about", "generative", "AI.", "Word", "count:">>

AgentCallsTool ==
    /\ runner = "running"
    /\ Len(calls) < MaxCalls
    /\ \E arg \in AgentArgs : calls' = Append(calls, NewFrame(arg))
    /\ UNCHANGED main_vars

\* The agent answers once every tool call has returned: with a summary alone,
\* or with a summary that includes the count some call reported.
RunnerReturns ==
    /\ runner = "running"
    /\ \A k \in DOMAIN calls : calls[k].pc = "returned"
    /\ final_output' \in
           {Summary} \cup
           {Summary \o <<ToString(calls[k].ret.word_count)>> : k \in DOMAIN calls}
    /\ runner' = "returned"
    /\ UNCHANGED <<pc, trace, stdout, runs, run_args, result, exit, agent, exc, calls>>

RunnerRaises ==
    /\ runner = "running"
    /\ exc' \in RunnerFaults
    /\ runner' = "raised"
    /\ UNCHANGED <<pc, trace, stdout, runs, run_args, result, exit, agent,
                   final_output, calls>>

-----------------------------------------------------------------------------
(* run_sample and the entry point *)

\* The text of the first print (its leading check-mark glyph left out).
Header == <<"Agent response:">>

\* The text print writes for a RunResult: the runner's rendering of it,
\* which shows the final output.
str_of_result(r) == <<"RunResult:", "Final output (str):">> \o r.final_output

\* with trace("Running sample agent"): the span is opened
EnterTrace ==
    /\ pc = "start"
    /\ trace' = "open"
    /\ pc' = "call_runner"
    /\ UNCHANGED <<stdout, runs, run_args, runner, result, exit, agent,
                   final_output, exc, calls>>

\* The header is printed before the run is awaited.
CallRunner_prints_first ==
    /\ pc = "call_runner"
    /\ runs' = runs + 1
    /\ run_args' = <<agent, sample_input>>
    /\ runner' = "running"
    /\ stdout' = Append(stdout, Header)
    /\ pc' = "await"
    /\ UNCHANGED <<trace, result, exit, agent, final_output, exc, calls>>

\* Runner.run(text_summary_agent, sample_input) is called
CallRunner ==
    /\ pc = "call_runner"
    /\ runs' = runs + 1
    /\ run_args' = <<agent, sample_input>>
    /\ runner' = "running"
    /\ pc' = "await"
    /\ UNCHANGED <<trace, stdout, result, exit, agent, final_output, exc, calls>>

\* result = await ...: the run has completed
AwaitReturns ==
    /\ pc = "await"
    /\ runner = "returned"
    /\ result' = [final_output |-> final_output, last_agent |-> run_args[1].name]
    /\ pc' = "print_header"
    /\ UNCHANGED <<trace, stdout, runs, run_args, runner, exit, agent,
                   final_output, exc, calls>>

\* A handler around the await that runs the agent again.
AwaitRaises_retry ==
    /\ pc = "await"
    /\ runner = "raised"
    /\ runner' = "idle"
    /\ pc' = "call_runner"
    /\ UNCHANGED <<trace, stdout, runs, run_args, result, exit, agent,
                   final_output, exc, calls>>

\* await ...: the run has raised; the exception leaves the with block
AwaitRaises ==
    /\ pc = "await"
    /\ runner = "raised"
    /\ pc' = "unwind"
    /\ UNCHANGED <<trace, stdout, runs, run_args, runner, result, exit, agent,
                   final_output, exc, calls>>

\* print("... Agent response:")
PrintHeader ==
    /\ pc = "print_header"
    /\ stdout' = Append(stdout, Header)
    /\ pc' = "print_result"
    /\ UNCHANGED <<trace, runs, run_args, runner, result, exit, agent,
                   final_output, exc, calls>>

\* print(result)
PrintResult ==
    /\ pc = "print_result"
    /\ stdout' = Append(stdout, str_of_result(result))
    /\ pc' = "exit_trace"
    /\ UNCHANGED <<trace, runs, run_args, runner, result, exit, agent,
                   final_output, exc, calls>>

\* The with block ends normally: the span is closed and run_sample returns.
ExitTrace ==
    /\ pc = "exit_trace"
    /\ trace' = "closed"
    /\ pc' = "return"
    /\ UNCHANGED <<stdout, runs, run_args, runner, result, exit, agent,
                   final_output, exc, calls>>

\* The span is closed by a call after the prints, which an exception skips.
ExitTraceOnException_skipped ==
    /\ pc = "unwind"
    /\ pc' = "propagate"
    /\ UNCHANGED <<trace, stdout, runs, run_args, runner, result, exit, agent,
                   final_output, exc, calls>>

\* The with block is left by an exception: the span is closed and the
\* exception goes on.
ExitTraceOnException ==
    /\ pc = "unwind"
    /\ trace' = "closed"
    /\ pc' = "propagate"
    /\ UNCHANGED <<stdout, runs, run_args, runner, result, exit, agent,
                   final_output, exc, calls>>

\* asyncio.run(run_sample()) returns: the process ends normally.
ProcessExits ==
    /\ pc = "return"
    /\ exit' = "ok"
    /\ pc' = "done"
    /\ UNCHANGED <<trace, stdout, runs, run_args, runner, result, agent,
                   final_output, exc, calls>>

\* Nothing catches the exception: the process ends with it.
ProcessTerminates ==
    /\ pc = "propagate"
    /\ exit' = "uncaught"
    /\ pc' = "terminated"
    /\ UNCHANGED <<trace, stdout, runs, run_args, runner, result, agent,
                   final_output, exc, calls>>

-----------------------------------------------------------------------------
(* The program *)

Init ==
    /\ MainInit
    /\ calls = <<>>

\* The tool runs only inside the run that called it.
InRun == runner = "running"

Next ==
    \/ EnterTrace
    \/ CallRunner
    \/ AgentCallsTool
    \/ \E k \in DOMAIN calls : InRun /\ Strip(k)
    \/ \E k \in DOMAIN calls : InRun /\ Split(k)
    \/ \E k \in DOMAIN calls : InRun /\ Length(k)
    \/ \E k \in DOMAIN calls : InRun /\ ReturnSuccess(k)
    \/ \E k \in DOMAIN calls : InRun /\ ReturnError(k)
    \/ RunnerReturns
    \/ RunnerRaises
    \/ AwaitReturns
    \/ AwaitRaises
    \/ PrintHeader
    \/ PrintResult
    \/ ExitTrace
    \/ ExitTraceOnException
    \/ ProcessExits
    \/ ProcessTerminates

Spec == Init /\ [][Next]_vars

-----------------------------------------------------------------------------
(* The tool on its own: one call of count_words on each input *)

InitTool ==
    /\ MainInit
    /\ \E input \in Inputs : calls = <<NewFrame(input)>>

NextTool ==
    \/ \E k \in DOMAIN calls : Strip(k)
    \/ \E k \in DOMAIN calls : Split(k)
    \/ \E k \in DOMAIN calls : Length(k)
    \/ \E k \in DOMAIN calls : ReturnSuccess(k)
    \/ \E k \in DOMAIN calls : ReturnError(k)

SpecTool == InitTool /\ [][NextTool]_vars

-----------------------------------------------------------------------------
(* Vocabulary of the properties *)

Range(f) == {f[i] : i \in DOMAIN f}

Returned(k) == calls[k].pc = "returned"

\* s with its leading and trailing whitespace removed, by position.
Trimmed(s) ==
    LET ns == {i \in 1..Len(s) : ~isspace(s[i])}
    IN  IF ns = {} THEN <<>>
        ELSE SubSeq(s, CHOOSE i \in ns : \A j \in ns : i <= j,
                       CHOOSE i \in ns : \A j \in ns : j <= i)

\* The positions where a maximal run of non-whitespace characters starts.
RunStarts(t) ==
    {i \in 1..Len(t) : ~isspace(t[i]) /\ (i = 1 \/ isspace(t[i - 1]))}

\* t occurs in s as a contiguous part.
Contains(s, t) ==
    \E i \in 1..(Len(s) - Len(t) + 1) : SubSeq(s, i, i + Len(t) - 1) = t

\* The agent called count_words on the input of the run and its answer
\* includes the count that call reported.
Wired ==
    /\ runner = "returned"
    /\ \E k \in DOMAIN calls :
           /\ calls[k].input = run_args[2]
           /\ ToString(calls[k].ret.word_count) \in Range(final_output)

-----------------------------------------------------------------------------
(* C1: whenever count_words returns for a string input, word_count is the   *)
(* number of maximal runs of non-whitespace characters of the trimmed       *)
(* input; for "one  two   three" it is 3.                                   *)
C1_WordCountIsNumberOfRuns ==
    \A k \in DOMAIN calls :
        Returned(k) /\ calls[k].arg.type = "str" =>
            /\ calls[k].ret.word_count
                   = Cardinality(RunStarts(Trimmed(calls[k].arg.value)))
            /\ calls[k].arg = one_two_three => calls[k].ret.word_count = 3

C1_Witness ==
    \E k \in DOMAIN calls :
        Returned(k) /\ calls[k].arg = one_two_three /\ calls[k].ret.word_count = 3

(* C2: no invocation of count_words ends with an exception leaving it; an   *)
(* invocation that met a fault returns word_count = 0, success = false and  *)
(* the message "Error: " followed by the fault's description.               *)
C2_NoFaultEscapes ==
    \A k \in DOMAIN calls :
        /\ calls[k].pc \in {"strip", "split", "len", "return", "except", "returned"}
        /\ ~count_words(calls[k].arg).raised
        /\ Returned(k) => DOMAIN calls[k].ret = {"word_count", "success", "message"}
        /\ Returned(k) /\ calls[k].arg.type # "str" =>
               /\ calls[k].ret.word_count = 0
               /\ calls[k].ret.success = FALSE
               /\ calls[k].ret.message
                      = "Error: '" \o calls[k].arg.type
                            \o "' object has no attribute 'strip'"

C2_Witness ==
    \E k \in DOMAIN calls :
        /\ Returned(k)
        /\ calls[k].arg = NoneValue
        /\ calls[k].ret = [word_count |-> 0, success |-> FALSE,
                           message |-> "Error: 'NoneType' object has no attribute 'strip'"]

(* C3: in every result count_words returns, success is true exactly when    *)
(* the message is "Word count successful" and word_count is a natural       *)
(* number; "hello world" gives 2, true, "Word count successful".            *)
C3_SuccessIffSuccessMessage ==
    \A k \in DOMAIN calls :
        Returned(k) =>
            /\ calls[k].ret.success
                   <=> (/\ calls[k].ret.message = "Word count successful"
                        /\ calls[k].ret.word_count \in Nat)
            /\ calls[k].arg = hello_world =>
                   calls[k].ret = [word_count |-> 2, success |-> TRUE,
                                   message |-> "Word count successful"]

C3_Witness ==
    \E k \in DOMAIN calls :
        /\ Returned(k)
        /\ calls[k].arg = hello_world
        /\ calls[k].ret.success
        /\ calls[k].ret.word_count = 2

(* C4: for the empty string and for every string of whitespace characters   *)
(* only, count_words returns word_count = 0 and success = true.             *)
C4_BlankInputCountsZero ==
    \A k \in DOMAIN calls :
        /\ Returned(k)
        /\ calls[k].arg.type = "str"
        /\ \A i \in DOMAIN calls[k].arg.value : isspace(calls[k].arg.value[i])
        => calls[k].ret.word_count = 0 /\ calls[k].ret.success = TRUE

C4_Witness ==
    \E k \in DOMAIN calls :
        /\ Returned(k)
        /\ calls[k].arg = three_spaces
        /\ calls[k].ret.word_count = 0
        /\ calls[k].ret.success = TRUE

(* C5, as stated: count_words reports 24 words for the sample input, and    *)
(* the answer of a correctly wired agent contains "24".                     *)
C5_SampleHas24Words ==
    /\ \A k \in DOMAIN calls :
           Returned(k) /\ calls[k].arg = sample_input => calls[k].ret.word_count = 24
    /\ Wired => "24" \in Range(final_output)

(* C5, amended: count_words reports 22 words for the sample input, and the  *)
(* answer of a correctly wired agent contains "22".                         *)
C5_SampleHas22Words ==
    /\ \A k \in DOMAIN calls :
           Returned(k) /\ calls[k].arg = sample_input => calls[k].ret.word_count = 22
    /\ Wired => "22" \in Range(final_output)

C5_Witness ==
    /\ Wired
    /\ run_args[2] = sample_input
    /\ "22" \in Range(final_output)

(* C6: any two invocations of count_words on the same input, whatever was   *)
(* called in between, return identical results.                             *)
C6_SameInputSameResult ==
    \A j, k \in DOMAIN calls :
        Returned(j) /\ Returned(k) /\ calls[j].arg = calls[k].arg =>
            calls[j].ret = calls[k].ret

C6_Witness ==
    \E j, m, k \in DOMAIN calls :
        /\ j < m /\ m < k
        /\ Returned(j) /\ Returned(m) /\ Returned(k)
        /\ calls[j].arg = calls[k].arg
        /\ calls[m].arg # calls[j].arg
        /\ calls[j].ret = calls[k].ret

(* C7: Runner.run is invoked at most once, with text_summary_agent and the  *)
(* sample input; nothing is printed until the run has completed; once       *)
(* run_sample is past its prints, exactly one run has been made and the     *)
(* output is the header followed by the text of the result, which shows     *)
(* the agent's final response.                                              *)
C7_OneRunThenPrint ==
    /\ runs <= 1
    /\ runs = 1 => run_args = <<text_summary_agent, sample_input>>
    /\ runner # "returned" => stdout = <<>>
    /\ pc \in {"start", "call_runner", "await"} => stdout = <<>>
    /\ pc \in {"exit_trace", "return", "done"} =>
           /\ runs = 1
           /\ runner = "returned"
           /\ Len(stdout) = 2
           /\ stdout[1] = Header
           /\ stdout[2] = str_of_result(result)
           /\ Contains(stdout[2], final_output)

C7_Witness ==
    /\ pc = "done"
    /\ exit = "ok"
    /\ runs = 1
    /\ Len(stdout) = 2
    /\ Contains(stdout[2], final_output)

(* C8: once the run has raised, run_sample only unwinds: nothing is         *)
(* printed, no result is bound, the run is not started again, and the       *)
(* process ends with the exception uncaught.                                *)
C8_RunnerFaultPropagates ==
    /\ exc # NoException =>
           /\ runner = "raised"
           /\ runs = 1
           /\ stdout = <<>>
           /\ result = NoRunResult
           /\ pc \in {"await", "unwind", "propagate", "terminated"}
           /\ exit \in {"running", "uncaught"}
    /\ pc = "terminated" => exit = "uncaught" /\ exc \in RunnerFaults
    /\ exit = "uncaught" => pc = "terminated"

C8_Witness ==
    /\ pc = "terminated"
    /\ exit = "uncaught"
    /\ runner = "raised"
    /\ runs = 1
    /\ stdout = <<>>

(* C9: an invocation of count_words that overlaps others returns what       *)
(* count_words returns for its argument when run alone, and leaves its      *)
(* argument, the arguments of the run and the agent configuration as they   *)
(* were.                                                                    *)
C9_Reentrant ==
    /\ \A k \in DOMAIN calls :
           /\ calls[k].input = calls[k].arg
           /\ Returned(k) => Return(calls[k].ret) = count_words(calls[k].arg)
    /\ agent = text_summary_agent
    /\ runs > 0 => run_args = <<text_summary_agent, sample_input>>

C9_Witness ==
    \E j, k \in DOMAIN calls :
        /\ j < k
        /\ calls[j].pc \in {"split", "len", "return"}
        /\ Returned(k)
        /\ calls[j].arg # calls[k].arg
        /\ Return(calls[k].ret) = count_words(calls[k].arg)

(* C10: the span is opened before Runner.run is invoked, is open while the  *)
(* run is in progress and at both prints, and is closed wherever            *)
(* run_sample has been left, by return or by exception.                     *)
C10_TraceBracketsRun ==
    /\ pc = "start" => trace = "unopened"
    /\ runner # "idle" \/ runs > 0 \/ stdout # <<>> => trace # "unopened"
    /\ pc \in {"call_runner", "await", "print_header", "print_result",
               "exit_trace", "unwind"} => trace = "open"
    /\ pc \in {"return", "done", "propagate", "terminated"} => trace = "closed"

C10_Witness ==
    /\ pc = "terminated"
    /\ runner = "raised"
    /\ trace = "closed"

=============================================================================
